---- MODULE Spec2Model ----
(***************************************************************************)
(* Model of the exam-schedule application of src/app.py: the validator,    *)
(* the two date formatters, the table 'examenes' with its AUTOINCREMENT    *)
(* key, and the request handlers index, agregar, editar, eliminar and      *)
(* exportar_pdf.  Text values are TLA+ strings; a character of a string s  *)
(* is the one-character string SubSeq(s, i, i).  TLC keeps only 7-bit      *)
(* characters intact in the strings of a state, so the program's texts are *)
(* written in ASCII: a letter with an accent or a tilde as the bare        *)
(* letter, and the degree sign of "1(degree) a(n-tilde)o" as the letter o. *)
(* None of these characters is one the program treats specially.           *)
(***************************************************************************)
EXTENDS Integers, Sequences, FiniteSets, TLC

VARIABLES
    examenes,             \* the rows of table examenes, in rowid order
    sqlite_sequence,      \* AUTOINCREMENT bookkeeping: largest rowid ever used
    REPORTLAB_AVAILABLE,  \* outcome of the import probe at process start
    resp,                 \* the last request served and its response
    asignados,            \* history: the ids handed out by INSERT, in order
    strftime_rellena,     \* the platform's strftime pads %Y to four digits
    hilos,                \* the requests the server's threads are serving
    reservado,            \* the thread whose connection holds SQLite's write lock
    agregados             \* history: the adds answered with the redirect

vars ==
    <<examenes, sqlite_sequence, REPORTLAB_AVAILABLE, resp, asignados,
      strftime_rellena, hilos, reservado, agregados>>

(***************************************************************************)
(* Bounds of the model.                                                    *)
(***************************************************************************)
\* ids are handed out up to MaxId; a further INSERT is not modelled
MaxId == 3

(***************************************************************************)
(* Characters and strings.                                                 *)
(***************************************************************************)
Ch(s, i) == SubSeq(s, i, i)

Digits == "0123456789"

IsDigit(c) == \E i \in 1..Len(Digits) : Ch(Digits, i) = c

DigitVal(c) == (CHOOSE i \in 1..Len(Digits) : Ch(Digits, i) = c) - 1

RECURSIVE Num(_)
\* int() of a string of decimal digits, a leading blank ignored
Num(s) ==
    IF s = "" THEN 0
    ELSE IF Ch(s, Len(s)) = " " THEN Num(SubSeq(s, 1, Len(s) - 1))
    ELSE Num(SubSeq(s, 1, Len(s) - 1)) * 10 + DigitVal(Ch(s, Len(s)))

RECURSIVE IntToStr(_)
IntToStr(n) ==
    IF n < 10 THEN Ch(Digits, n + 1)
    ELSE IntToStr(n \div 10) \o Ch(Digits, (n % 10) + 1)

\* '%02d'
Pad2(n) == IF n < 10 THEN "0" \o IntToStr(n) ELSE IntToStr(n)

Blancos == {" ", "\t", "\n", "\r", "\f"}

RECURSIVE strip(_)
\* str.strip(): leading and trailing whitespace removed
strip(s) ==
    IF s = "" THEN ""
    ELSE IF Ch(s, 1) \in Blancos THEN strip(SubSeq(s, 2, Len(s)))
    ELSE IF Ch(s, Len(s)) \in Blancos THEN strip(SubSeq(s, 1, Len(s) - 1))
    ELSE s

(***************************************************************************)
(* datetime: the proleptic Gregorian calendar.                             *)
(***************************************************************************)
is_leap(y) == y % 4 = 0 /\ (y % 100 # 0 \/ y % 400 = 0)

days_in_month(y, m) ==
    IF m = 2 THEN (IF is_leap(y) THEN 29 ELSE 28)
    ELSE IF m \in {4, 6, 9, 11} THEN 30 ELSE 31

RECURSIVE days_before_month(_, _)
days_before_month(y, m) ==
    IF m = 1 THEN 0 ELSE days_before_month(y, m - 1) + days_in_month(y, m - 1)

days_before_year(y) ==
    (y - 1) * 365 + ((y - 1) \div 4) - ((y - 1) \div 100) + ((y - 1) \div 400)

toordinal(y, m, d) == days_before_year(y) + days_before_month(y, m) + d

\* datetime.weekday(): Monday is 0, Sunday is 6
weekday(y, m, d) == (toordinal(y, m, d) + 6) % 7

(***************************************************************************)
(* datetime.datetime.strptime(s, '%Y-%m-%d').  The directives are the      *)
(* regular expressions %Y = \d\d\d\d, %m = 1[0-2]|0[1-9]|[1-9] and          *)
(* %d = 3[01]|[12]\d|0[1-9]|[1-9]| [1-9]; the whole string must be         *)
(* consumed, and the fields must name a day of the calendar.  The result   *)
(* has ok = FALSE where Python raises ValueError.                          *)
(***************************************************************************)
MonthToken(t) ==
    \/ Len(t) = 2 /\ Ch(t, 1) = "1" /\ Ch(t, 2) \in {"0", "1", "2"}
    \/ Len(t) = 2 /\ Ch(t, 1) = "0" /\ IsDigit(Ch(t, 2)) /\ Ch(t, 2) # "0"
    \/ Len(t) = 1 /\ IsDigit(t) /\ t # "0"

DayToken(t) ==
    \/ Len(t) = 2 /\ Ch(t, 1) = "3" /\ Ch(t, 2) \in {"0", "1"}
    \/ Len(t) = 2 /\ Ch(t, 1) \in {"1", "2"} /\ IsDigit(Ch(t, 2))
    \/ Len(t) = 2 /\ Ch(t, 1) = "0" /\ IsDigit(Ch(t, 2)) /\ Ch(t, 2) # "0"
    \/ Len(t) = 1 /\ IsDigit(t) /\ t # "0"
    \/ Len(t) = 2 /\ Ch(t, 1) = " " /\ IsDigit(Ch(t, 2)) /\ Ch(t, 2) # "0"

\* the string is %Y-%m-%d with a month of ml and a day of dl characters
MatchYmd(s, ml, dl) ==
    /\ Len(s) = 6 + ml + dl
    /\ \A i \in 1..4 : IsDigit(Ch(s, i))
    /\ Ch(s, 5) = "-"
    /\ MonthToken(SubSeq(s, 6, 5 + ml))
    /\ Ch(s, 6 + ml) = "-"
    /\ DayToken(SubSeq(s, 7 + ml, Len(s)))

NoDate == [ok |-> FALSE, year |-> 0, month |-> 0, day |-> 0]

strptime(s) ==
    IF \E ml \in {1, 2}, dl \in {1, 2} : MatchYmd(s, ml, dl)
    THEN LET ml == CHOOSE l \in {1, 2} : \E dl \in {1, 2} : MatchYmd(s, l, dl)
             y  == Num(SubSeq(s, 1, 4))
             m  == Num(SubSeq(s, 6, 5 + ml))
             d  == Num(SubSeq(s, 7 + ml, Len(s)))
         IN  IF y >= 1 /\ d <= days_in_month(y, m)
             THEN [ok |-> TRUE, year |-> y, month |-> m, day |-> d]
             ELSE NoDate
    ELSE NoDate

\* '%04d'
Pad4(n) ==
    IF n < 10 THEN "000" \o IntToStr(n)
    ELSE IF n < 100 THEN "00" \o IntToStr(n)
    ELSE IF n < 1000 THEN "0" \o IntToStr(n)
    ELSE IntToStr(n)

\* %Y as the platform's strftime renders it: the C library of Linux writes a
\* year below 1000 without leading zeros, others write four digits
strftime_Y(year) == IF strftime_rellena THEN Pad4(year) ELSE IntToStr(year)

\* fecha.strftime('%d/%m/%Y')
strftime(f) == Pad2(f.day) \o "/" \o Pad2(f.month) \o "/" \o strftime_Y(f.year)

(***************************************************************************)
(* The date formatters.                                                    *)
(***************************************************************************)
dias_semana ==
    <<"LUNES", "MARTES", "MIERCOLES", "JUEVES", "VIERNES", "SABADO", "DOMINGO">>

dias_semana_abrev == <<"LUN", "MAR", "MIE", "JUE", "VIE", "SAB", "DOM">>

formatear_fecha(fecha_str) ==
    LET fecha == strptime(fecha_str)
    IN  IF fecha.ok
        THEN dias_semana[weekday(fecha.year, fecha.month, fecha.day) + 1]
                 \o " " \o strftime(fecha)
        ELSE fecha_str

formatear_fecha_compacta(fecha_str) ==
    LET fecha == strptime(fecha_str)
    IN  IF fecha.ok
        THEN dias_semana_abrev[weekday(fecha.year, fecha.month, fecha.day) + 1]
                 \o " " \o strftime(fecha)
        ELSE fecha_str

(***************************************************************************)
(* The validator.                                                          *)
(***************************************************************************)
ESPACIOS_CURRICULARES == {
    "Lengua",
    "Matematica",
    "Lengua Extranjera",
    "Educacion Fisica",
    "Ciencias Sociales: Geografia",
    "Ciencias Sociales: Historia-Formacion Etica y Ciudadana",
    "Ciencias Naturales",
    "Educacion Artistica (C) Artes Visuales",
    "Educacion Artistica (A) Teatro",
    "Educacion Artistica (B) Musica",
    "Comunicacion Social",
    "Educacion Tecnologica",
    "Lengua y Literatura",
    "Geografia",
    "Historia",
    "Fisica",
    "Biologia",
    "Practicas Artisticas",
    "Comunicacion",
    "Sistemas de Informacion Contable I (PP 1)",
    "Tecnologias de la Informacion y la Comunicacion",
    "Procesamiento Digital",
    "Proyecto Integrado: Ciencias Sociales",
    "Quimica",
    "Sistemas de Informacion Contable II",
    "Administracion de las Organizaciones",
    "Economia I",
    "Derecho",
    "Tecnologia, Sociedad y Conocimiento",
    "Produccion Multimedial",
    "Funcionamiento de Sistemas Digitales",
    "Resoluciones Logicas",
    "Economia Social",
    "Formacion Etica y Ciudadana",
    "Formacion para la Vida y el Trabajo",
    "Proyecto y Gestion de Microemprendimientos",
    "Sistemas de Informacion Contable III",
    "Teoria y Practica Impositiva",
    "Economia II",
    "Arquitectura de Hardware",
    "Sistemas digitales y redes",
    "Programacion",
    "Desarrollo de Sistemas Digitales" }

anios_permitidos == {"1o ano", "2o ano", "3o ano", "4o ano", "5o ano"}

Resultado(es_valido, mensaje_error) ==
    [es_valido |-> es_valido, mensaje_error |-> mensaje_error]

\* the validator with the year checked before the subject
validar_anio_primero(fecha, espacio_curricular, anio, horario, docente) ==
    IF ~strptime(fecha).ok THEN Resultado(FALSE, "Fecha invalida")
    ELSE IF anio \notin anios_permitidos THEN Resultado(FALSE, "Ano no valido")
    ELSE IF espacio_curricular \notin ESPACIOS_CURRICULARES
        THEN Resultado(FALSE, "Espacio curricular no valido")
    ELSE IF strip(horario) = "" THEN Resultado(FALSE, "Horario no puede estar vacio")
    ELSE IF strip(docente) = "" THEN Resultado(FALSE, "Docente no puede estar vacio")
    ELSE Resultado(TRUE, "")

validar_datos_examen(fecha, espacio_curricular, anio, horario, docente) ==
    IF ~strptime(fecha).ok THEN Resultado(FALSE, "Fecha invalida")
    ELSE IF espacio_curricular \notin ESPACIOS_CURRICULARES
        THEN Resultado(FALSE, "Espacio curricular no valido")
    ELSE IF anio \notin anios_permitidos THEN Resultado(FALSE, "Ano no valido")
    ELSE IF strip(horario) = "" THEN Resultado(FALSE, "Horario no puede estar vacio")
    ELSE IF strip(docente) = "" THEN Resultado(FALSE, "Docente no puede estar vacio")
    ELSE Resultado(TRUE, "")

(***************************************************************************)
(* SQLite: table examenes (id INTEGER PRIMARY KEY AUTOINCREMENT, five TEXT *)
(* columns).  The table is a b-tree keyed by rowid, so a scan yields the   *)
(* rows by ascending id.                                                   *)
(***************************************************************************)
Fila(id, fecha, espacio_curricular, anio, horario, docente) ==
    [id |-> id, fecha |-> fecha, espacio_curricular |-> espacio_curricular,
     anio |-> anio, horario |-> horario, docente |-> docente]

Ids(tabla) == {tabla[i].id : i \in 1..Len(tabla)}

MaxRowid(tabla) == IF tabla = <<>> THEN 0 ELSE tabla[Len(tabla)].id

\* a rowid chosen as for a table without AUTOINCREMENT: one more than the
\* largest rowid now in the table
NewRowidMaxOnly(tabla, seq) == MaxRowid(tabla) + 1

\* AUTOINCREMENT: one more than the largest rowid that was ever in the table
NewRowid(tabla, seq) ==
    (IF MaxRowid(tabla) > seq THEN MaxRowid(tabla) ELSE seq) + 1

\* code points of the characters a stored fecha can hold, in ascending order
Alfabeto == " -0123456789"

Ord(c) == CHOOSE i \in 1..Len(Alfabeto) : Ch(Alfabeto, i) = c

RECURSIVE Binary(_, _)
\* collation BINARY (memcmp): negative, zero or positive
Binary(a, b) ==
    IF a = "" THEN (IF b = "" THEN 0 ELSE -1)
    ELSE IF b = "" THEN 1
    ELSE IF Ch(a, 1) = Ch(b, 1)
        THEN Binary(SubSeq(a, 2, Len(a)), SubSeq(b, 2, Len(b)))
    ELSE IF Ord(Ch(a, 1)) < Ord(Ch(b, 1)) THEN -1 ELSE 1

RECURSIVE SorterInsert(_, _)
\* the sorter keeps a row behind every row whose key is not greater
SorterInsert(sorted, fila) ==
    IF sorted = <<>> THEN <<fila>>
    ELSE IF Binary(sorted[Len(sorted)].fecha, fila.fecha) <= 0
        THEN Append(sorted, fila)
    ELSE Append(SorterInsert(SubSeq(sorted, 1, Len(sorted) - 1), fila),
                sorted[Len(sorted)])

RECURSIVE OrderByFecha(_)
\* ORDER BY fecha over a scan of the table.  There is no index on fecha, so
\* SQLite scans the table by rowid and sorts the rows by the key alone; its
\* merge sort keeps rows with equal keys in scan order.
OrderByFecha(filas) ==
    IF filas = <<>> THEN <<>>
    ELSE SorterInsert(OrderByFecha(SubSeq(filas, 1, Len(filas) - 1)),
                      filas[Len(filas)])

\* SELECT * FROM examenes ORDER BY fecha
SelectIndex(tabla) == OrderByFecha(tabla)

\* SELECT fecha, espacio_curricular, anio, horario, docente FROM examenes
\* with no ORDER BY: the rows in scan order
SelectExportSinOrden(tabla) ==
    [i \in 1..Len(tabla) |->
        <<tabla[i].fecha, tabla[i].espacio_curricular, tabla[i].anio,
          tabla[i].horario, tabla[i].docente>>]

\* SELECT fecha, espacio_curricular, anio, horario, docente FROM examenes
\* ORDER BY fecha
SelectExport(tabla) == SelectExportSinOrden(OrderByFecha(tabla))

\* SELECT * FROM examenes WHERE id=? ; fetchone() gives None for no row
None == [id |-> 0]

SelectById(tabla, id) ==
    IF id \in Ids(tabla)
    THEN tabla[CHOOSE i \in 1..Len(tabla) : tabla[i].id = id]
    ELSE None

\* INSERT INTO examenes (fecha, ...) VALUES (?, ?, ?, ?, ?)
Insert(tabla, seq, form) ==
    Append(tabla, Fila(NewRowid(tabla, seq), form.fecha, form.espacio_curricular,
                       form.anio, form.horario, form.docente))

\* an UPDATE that, finding the id in the table, sets the fields of every row
UpdateSinWhere(tabla, id, form) ==
    [i \in 1..Len(tabla) |->
        IF id \in Ids(tabla)
        THEN Fila(tabla[i].id, form.fecha, form.espacio_curricular, form.anio,
                  form.horario, form.docente)
        ELSE tabla[i]]

\* an UPDATE that inserts the row when no row has the id
Upsert(tabla, id, form) ==
    IF id \in Ids(tabla)
    THEN [i \in 1..Len(tabla) |->
             IF tabla[i].id = id
             THEN Fila(id, form.fecha, form.espacio_curricular, form.anio,
                       form.horario, form.docente)
             ELSE tabla[i]]
    ELSE Append(tabla, Fila(id, form.fecha, form.espacio_curricular, form.anio,
                            form.horario, form.docente))

\* UPDATE examenes SET fecha=?, ... WHERE id=? ; no row matches a missing id
Update(tabla, id, form) ==
    [i \in 1..Len(tabla) |->
        IF tabla[i].id = id
        THEN Fila(id, form.fecha, form.espacio_curricular, form.anio,
                  form.horario, form.docente)
        ELSE tabla[i]]

RECURSIVE Delete(_, _)
\* DELETE FROM examenes WHERE id=?
Delete(tabla, id) ==
    IF tabla = <<>> THEN <<>>
    ELSE IF tabla[1].id = id THEN Delete(Tail(tabla), id)
    ELSE <<tabla[1]>> \o Delete(Tail(tabla), id)

(***************************************************************************)
(* csv.writer with the default dialect: delimiter ',', quotechar '"',      *)
(* QUOTE_MINIMAL.  A file is modelled as the sequence of its lines, each   *)
(* ended by the line terminator.                                           *)
(***************************************************************************)
Especiales == {",", "\"", "\r", "\n"}

RECURSIVE DoblarComillas(_)
DoblarComillas(s) ==
    IF s = "" THEN ""
    ELSE (IF Ch(s, 1) = "\"" THEN "\"\"" ELSE Ch(s, 1))
             \o DoblarComillas(SubSeq(s, 2, Len(s)))

\* a field is written as it is, whatever it holds
CsvFieldSinComillas(s) == s

\* a field holding the delimiter, a quote or a line break is quoted
CsvField(s) ==
    IF \E i \in 1..Len(s) : Ch(s, i) \in Especiales
    THEN "\"" \o DoblarComillas(s) \o "\""
    ELSE s

RECURSIVE Join(_)
Join(campos) ==
    IF Len(campos) = 0 THEN ""
    ELSE IF Len(campos) = 1 THEN campos[1]
    ELSE campos[1] \o "," \o Join(Tail(campos))

\* writer.writerow(row)
writerow(row) == Join([i \in 1..Len(row) |-> CsvField(row[i])])

(***************************************************************************)
(* Requests and responses.  A form field that is absent from the request   *)
(* reads as None, which the handlers treat like the empty string.          *)
(***************************************************************************)
Form(fecha, espacio_curricular, anio, horario, docente) ==
    [fecha |-> fecha, espacio_curricular |-> espacio_curricular,
     anio |-> anio, horario |-> horario, docente |-> docente]

SinForm == Form("", "", "", "", "")

Respuesta(ruta, metodo, id, form, status, mensaje, cuerpo) ==
    [ruta |-> ruta, metodo |-> metodo, id |-> id, form |-> form,
     status |-> status, mensaje |-> mensaje, cuerpo |-> cuerpo]

Encabezado == <<"Fecha", "Espacio Curricular", "Ano", "Horario", "Docente">>

\* not (fecha and espacio_curricular and anio and horario and docente)
Faltan(form) ==
    \/ form.fecha = ""
    \/ form.espacio_curricular = ""
    \/ form.anio = ""
    \/ form.horario = ""
    \/ form.docente = ""


(***************************************************************************)
(* The requests the model sends.                                           *)
(***************************************************************************)
FormsValidos == {
    Form("2025-09-12", "Matematica", "1o ano", "09:00 - 11:00", "DIAZ, PAMELA"),
    Form("2025-08-22", "Matematica", "1o ano", "09:30", "DIAZ, PAMELA"),
    Form("2025-08-22", "Lengua", "2o ano", "14:00", "GOMEZ, CARLOS"),
    Form("2025-8-25", "Tecnologia, Sociedad y Conocimiento", "5o ano", "09:30", "PEREZ") }

FormsRechazados == {
    Form("2025-02-30", "Matematica", "1o ano", "09:30", "DIAZ, PAMELA"),
    Form("2025-08-22", "Alquimia", "1o ano", "09:30", "DIAZ, PAMELA"),
    Form("2025-08-22", "Matematica", "6o ano", "09:30", "DIAZ, PAMELA"),
    Form("2025-08-22", "Matematica", "1o ano", "   ", "DIAZ, PAMELA"),
    Form("2025-08-22", "Matematica", "1o ano", "09:30", " "),
    Form("2025-08-22", "Matematica", "1o ano", "09:30", ""),
    Form("fecha-invalida", "Alquimia", "6o ano", " ", " ") }

FormsApp == FormsValidos \cup FormsRechazados

Fechas == {"2025-09-12", "2025-9-15", "2025-09- 5", "2024-02-29", "2025-02-29",
           "2025-02-30", "2025-13-01", "0000-01-01", "12/09/2025",
           "2025-09-12 ", "fecha-invalida", ""}

Espacios == {"Matematica", "Tecnologia, Sociedad y Conocimiento", "matematica",
             "Alquimia", ""}

Anios == {"1o ano", "5o ano", "6o ano", ""}

Horarios == {"09:00 - 11:00", "   ", ""}

Docentes == {"DIAZ, PAMELA", " ", ""}

FormsValidar ==
    {Form(f, e, a, h, d) : f \in Fechas, e \in Espacios, a \in Anios,
                           h \in Horarios, d \in Docentes}

IdsPedidos == 1..MaxId

\* the validator's answer for each form, computed once per form
validar_tabla ==
    [form \in FormsApp \cup FormsValidar |->
        validar_datos_examen(form.fecha, form.espacio_curricular, form.anio,
                             form.horario, form.docente)]

\* es_valido, mensaje_error = validar_datos_examen(fecha, ...)
validar(form) == validar_tabla[form]

(***************************************************************************)
(* The request handlers.  Each serves one request in one step: its         *)
(* statement is committed before the response is produced.                 *)
(***************************************************************************)
\* what is settled when the process starts
proceso == <<REPORTLAB_AVAILABLE, strftime_rellena>>

\* The threaded server and the connections of its threads.  A handler that
\* is modelled as one step serves its request alone, from the first
\* statement to the response, and leaves these as they are.
MaxHilos == 2

Hilos == 1..MaxHilos

Libre ==
    [pc |-> "libre", ruta |-> "", id |-> 0, form |-> SinForm, rowid |-> 0,
     rowcount |-> 0]

servidor == <<hilos, reservado, agregados>>

init_db ==
    /\ examenes = <<>>
    /\ sqlite_sequence = 0

\* GET /
index ==
    /\ resp' = Respuesta("index", "GET", 0, SinForm, 200, "",
                 LET filas == SelectIndex(examenes)
                 IN  [i \in 1..Len(filas) |->
                         [filas[i] EXCEPT !.fecha = formatear_fecha(filas[i].fecha)]])
    /\ UNCHANGED <<examenes, sqlite_sequence, asignados, proceso, servidor>>

\* GET /agregar
agregar_GET ==
    /\ resp' = Respuesta("agregar", "GET", 0, SinForm, 200, "", <<>>)
    /\ UNCHANGED <<examenes, sqlite_sequence, asignados, proceso, servidor>>

\* POST /agregar, with the detailed validation left out
agregar_POST_sin_validar(form) ==
    IF Faltan(form)
    THEN /\ resp' = Respuesta("agregar", "POST", 0, form, 400,
                      "Faltan datos. Por favor complete todos los campos.", <<>>)
         /\ UNCHANGED <<examenes, sqlite_sequence, asignados, proceso, servidor>>
    ELSE /\ NewRowid(examenes, sqlite_sequence) <= MaxId
         /\ examenes' = Insert(examenes, sqlite_sequence, form)
         /\ sqlite_sequence' = NewRowid(examenes, sqlite_sequence)
         /\ asignados' = Append(asignados, NewRowid(examenes, sqlite_sequence))
         /\ resp' = Respuesta("agregar", "POST", 0, form, 302, "", <<>>)
         /\ agregados' = agregados + 1
         /\ UNCHANGED <<proceso, hilos, reservado>>

\* an add that answers every rejection with the same message
agregar_POST_mensaje_unico(form) ==
    IF Faltan(form) \/ ~validar(form).es_valido
    THEN /\ resp' = Respuesta("agregar", "POST", 0, form, 400,
                      "Faltan datos. Por favor complete todos los campos.", <<>>)
         /\ UNCHANGED <<examenes, sqlite_sequence, asignados, proceso, servidor>>
    ELSE /\ NewRowid(examenes, sqlite_sequence) <= MaxId
         /\ examenes' = Insert(examenes, sqlite_sequence, form)
         /\ sqlite_sequence' = NewRowid(examenes, sqlite_sequence)
         /\ asignados' = Append(asignados, NewRowid(examenes, sqlite_sequence))
         /\ resp' = Respuesta("agregar", "POST", 0, form, 302, "", <<>>)
         /\ agregados' = agregados + 1
         /\ UNCHANGED <<proceso, hilos, reservado>>

\* POST /agregar
agregar_POST(form) ==
    IF Faltan(form)
    THEN /\ resp' = Respuesta("agregar", "POST", 0, form, 400,
                      "Faltan datos. Por favor complete todos los campos.", <<>>)
         /\ UNCHANGED <<examenes, sqlite_sequence, asignados, proceso, servidor>>
    ELSE IF ~validar(form).es_valido
    THEN /\ resp' = Respuesta("agregar", "POST", 0, form, 400,
                      "Datos invalidos: " \o validar(form).mensaje_error, <<>>)
         /\ UNCHANGED <<examenes, sqlite_sequence, asignados, proceso, servidor>>
    ELSE /\ NewRowid(examenes, sqlite_sequence) <= MaxId
         /\ examenes' = Insert(examenes, sqlite_sequence, form)
         /\ sqlite_sequence' = NewRowid(examenes, sqlite_sequence)
         /\ asignados' = Append(asignados, NewRowid(examenes, sqlite_sequence))
         /\ resp' = Respuesta("agregar", "POST", 0, form, 302, "", <<>>)
         /\ agregados' = agregados + 1
         /\ UNCHANGED <<proceso, hilos, reservado>>

\* GET /editar/<id>
editar_GET(id) ==
    /\ resp' = IF SelectById(examenes, id) = None
               THEN Respuesta("editar", "GET", id, SinForm, 404,
                              "Examen no encontrado", <<>>)
               ELSE Respuesta("editar", "GET", id, SinForm, 200, "",
                              <<SelectById(examenes, id)>>)
    /\ UNCHANGED <<examenes, sqlite_sequence, asignados, proceso, servidor>>

\* an edit that writes the row first and looks at the values afterwards
editar_POST_escribe_antes(id, form) ==
    /\ examenes' = Update(examenes, id, form)
    /\ resp' =
         IF Faltan(form)
         THEN Respuesta("editar", "POST", id, form, 400,
                        "Faltan datos. Por favor complete todos los campos.", <<>>)
         ELSE IF ~validar(form).es_valido
         THEN Respuesta("editar", "POST", id, form, 400,
                        "Datos invalidos: " \o validar(form).mensaje_error, <<>>)
         ELSE Respuesta("editar", "POST", id, form, 302, "", <<>>)
    /\ UNCHANGED <<sqlite_sequence, asignados, proceso, servidor>>

\* POST /editar/<id>, the form values bound to the wrong columns
editar_POST_columnas(id, form) ==
    IF Faltan(form) \/ ~validar(form).es_valido
    THEN /\ resp' = Respuesta("editar", "POST", id, form, 400, "Datos invalidos", <<>>)
         /\ UNCHANGED <<examenes, sqlite_sequence, asignados, proceso, servidor>>
    ELSE /\ examenes' = Update(examenes, id,
                          [form EXCEPT !.horario = form.docente,
                                       !.docente = form.horario])
         /\ resp' = Respuesta("editar", "POST", id, form, 302, "", <<>>)
         /\ UNCHANGED <<sqlite_sequence, asignados, proceso, servidor>>

\* POST /editar/<id>
editar_POST(id, form) ==
    IF Faltan(form)
    THEN /\ resp' = Respuesta("editar", "POST", id, form, 400,
                      "Faltan datos. Por favor complete todos los campos.", <<>>)
         /\ UNCHANGED <<examenes, sqlite_sequence, asignados, proceso, servidor>>
    ELSE IF ~validar(form).es_valido
    THEN /\ resp' = Respuesta("editar", "POST", id, form, 400,
                      "Datos invalidos: " \o validar(form).mensaje_error, <<>>)
         /\ UNCHANGED <<examenes, sqlite_sequence, asignados, proceso, servidor>>
    ELSE /\ examenes' = Update(examenes, id, form)
         /\ resp' = Respuesta("editar", "POST", id, form, 302, "", <<>>)
         /\ UNCHANGED <<sqlite_sequence, asignados, proceso, servidor>>

\* a delete whose statement also takes the rows of smaller id along
eliminar_hasta(id) ==
    /\ examenes' = SelectSeq(examenes, LAMBDA r : r.id > id)
    /\ resp' = Respuesta("eliminar", "GET", id, SinForm, 302, "", <<>>)
    /\ UNCHANGED <<sqlite_sequence, asignados, proceso, servidor>>

\* GET /eliminar/<id>
eliminar(id) ==
    /\ examenes' = Delete(examenes, id)
    /\ resp' = Respuesta("eliminar", "GET", id, SinForm, 302, "", <<>>)
    /\ UNCHANGED <<sqlite_sequence, asignados, proceso, servidor>>

\* the rows read for the export, each date in its compact form
examenes_formateados(filas) ==
    [i \in 1..Len(filas) |->
        [filas[i] EXCEPT ![1] = formatear_fecha_compacta(filas[i][1])]]

\* the document built with ReportLab: the table's data and the footer count
Pdf(filas) ==
    [tipo |-> "pdf", download_name |-> "cronograma_examenes.pdf",
     mimetype |-> "application/pdf",
     data |-> <<Encabezado>> \o filas, total |-> Len(filas)]

\* the file written by csv.writer
Csv(filas) ==
    [tipo |-> "csv", download_name |-> "cronograma_examenes.csv",
     mimetype |-> "text/csv",
     data |-> <<writerow(Encabezado)>> \o [i \in 1..Len(filas) |-> writerow(filas[i])],
     total |-> Len(filas)]

\* The steps inside the try block of either path: 1 creates the temporary
\* file, 2 writes the header, 3 .. n + 2 write the n rows, n + 3 is
\* send_file.  falla is the step that raises, 0 when none does.
PuntosDeFalla == 0..(Len(examenes) + 3)

\* the temporary file as it is on disk when step falla raises
Parcial(doc, falla) ==
    [doc EXCEPT !.data = SubSeq(doc.data, 1, IF falla > 2 THEN falla - 2 ELSE 0)]

\* an export whose except clause sends the file as far as it was written
exportar_pdf_parcial(falla) ==
    /\ resp' =
         LET filas == examenes_formateados(SelectExport(examenes))
             doc == IF REPORTLAB_AVAILABLE THEN Pdf(filas) ELSE Csv(filas)
         IN  Respuesta("exportar_pdf", "GET", 0, SinForm, 200, "",
                       IF falla = 0 THEN doc ELSE Parcial(doc, falla))
    /\ UNCHANGED <<examenes, sqlite_sequence, asignados, proceso, servidor>>

\* an export that picks its renderer by what there is to export
exportar_pdf_por_contenido(falla) ==
    /\ resp' =
         LET filas == examenes_formateados(SelectExport(examenes))
         IN  IF falla # 0
             THEN Respuesta("exportar_pdf", "GET", 0, SinForm, 500,
                            "Error al generar PDF", <<>>)
             ELSE IF REPORTLAB_AVAILABLE /\ filas # <<>>
             THEN Respuesta("exportar_pdf", "GET", 0, SinForm, 200, "", Pdf(filas))
             ELSE Respuesta("exportar_pdf", "GET", 0, SinForm, 200, "", Csv(filas))
    /\ UNCHANGED <<examenes, sqlite_sequence, asignados, proceso, servidor>>

\* GET /exportar_pdf
exportar_pdf(falla) ==
    /\ resp' =
         LET filas == examenes_formateados(SelectExport(examenes))
         IN  IF REPORTLAB_AVAILABLE
             THEN IF falla # 0
                  THEN Respuesta("exportar_pdf", "GET", 0, SinForm, 500,
                                 "Error al generar PDF", <<>>)
                  ELSE Respuesta("exportar_pdf", "GET", 0, SinForm, 200, "", Pdf(filas))
             ELSE IF falla # 0
                  THEN Respuesta("exportar_pdf", "GET", 0, SinForm, 500,
                                 "Error al generar CSV", <<>>)
                  ELSE Respuesta("exportar_pdf", "GET", 0, SinForm, 200, "", Csv(filas))
    /\ UNCHANGED <<examenes, sqlite_sequence, asignados, proceso, servidor>>

(***************************************************************************)
(* The application: the state after init_db on a fresh database, and one   *)
(* request served per step.                                                *)
(***************************************************************************)
Init ==
    /\ init_db
    /\ REPORTLAB_AVAILABLE \in BOOLEAN
    /\ strftime_rellena \in BOOLEAN
    /\ asignados = <<>>
    /\ hilos = [h \in Hilos |-> Libre]
    /\ reservado = 0
    /\ agregados = 0
    /\ resp = Respuesta("", "", 0, SinForm, 0, "", <<>>)

Next ==
    \/ index
    \/ agregar_GET
    \/ \E form \in FormsApp : agregar_POST(form)
    \/ \E id \in IdsPedidos : editar_GET(id)
    \/ \E id \in IdsPedidos, form \in FormsApp : editar_POST(id, form)
    \/ \E id \in IdsPedidos : eliminar(id)
    \/ \E falla \in PuntosDeFalla : exportar_pdf(falla)

Spec == Init /\ [][Next]_vars

(***************************************************************************)
(* The validator alone, applied to every combination of field values.      *)
(***************************************************************************)
Validar(form) ==
    /\ resp.ruta = ""
    /\ resp' = Respuesta("validar_datos_examen", "", 0, form, 0,
                         validar(form).mensaje_error, validar(form).es_valido)
    /\ UNCHANGED <<examenes, sqlite_sequence, asignados, proceso, servidor>>

NextValidar == \E form \in FormsValidar : Validar(form)

SpecValidar == Init /\ [][NextValidar]_vars

(***************************************************************************)
(* The two date formatters alone, applied to every string of a set that    *)
(* holds the days 01..31 of every month of a few years (days that do not   *)
(* exist included) and strings that are not of the form YYYY-MM-DD.        *)
(***************************************************************************)
AniosFormato == {"0001", "0999", "1900", "2000", "2024", "2025"}

DosDigitos == {Pad2(n) : n \in 1..31}

FechasCalendario ==
    {y \o "-" \o m \o "-" \o d :
        y \in AniosFormato, m \in {Pad2(n) : n \in 1..12}, d \in DosDigitos}

FechasSueltas ==
    Fechas \cup {"2025-9-5", "2025-8-25", "999-12-31", "12-09-2025",
                 "2025/09/12", "20250912", " 2025-09-12", "2025-09-12T09:00",
                 "2025-00-10", "2025-01-00", "2025-1-1", "hoy"}

FechasFormato == FechasCalendario \cup FechasSueltas

Formatear(fecha_str) ==
    /\ resp.ruta = ""
    /\ resp' = Respuesta("formatear_fecha", "", 0,
                         Form(fecha_str, "", "", "", ""), 0, "",
                         <<formatear_fecha(fecha_str),
                           formatear_fecha_compacta(fecha_str)>>)
    /\ UNCHANGED <<examenes, sqlite_sequence, asignados, proceso, servidor>>

NextFormato == \E fecha_str \in FechasFormato : Formatear(fecha_str)

SpecFormato == Init /\ [][NextFormato]_vars

(***************************************************************************)
(* The threaded server.  Each thread serves one client: an add (the POST), *)
(* a delete, or an edit (the GET that loads the form, then the POST that   *)
(* submits it).  A write handler is cut at its database calls: execute     *)
(* begins the connection's transaction and takes SQLite's write lock,      *)
(* commit applies the statement and releases the lock, and the response is *)
(* returned afterwards.  A statement that finds the lock held waits, and   *)
(* when the wait outlasts the connection's timeout sqlite3 raises          *)
(* "database is locked", which Flask answers with the 500 page.            *)
(***************************************************************************)
FormAgregar == Form("2025-08-22", "Matematica", "1o ano", "09:30", "DIAZ, PAMELA")

FormEditar == Form("2025-09-12", "Matematica", "1o ano", "09:00 - 11:00", "DIAZ, PAMELA")

\* the id the edits and deletes of the clients aim at
IdsHilos == {1}

PeticionesHilos ==
    {[ruta |-> "agregar", id |-> 0, form |-> FormAgregar]}
        \cup {[ruta |-> "editar", id |-> id, form |-> FormEditar] : id \in IdsHilos}
        \cup {[ruta |-> "eliminar", id |-> id, form |-> SinForm] : id \in IdsHilos}

\* the threads whose INSERT is not committed yet
SinConfirmar ==
    {h \in Hilos : hilos[h].ruta = "agregar" /\ hilos[h].pc \in {"execute", "commit"}}

metodo(ruta) == IF ruta = "eliminar" THEN "GET" ELSE "POST"

\* a thread takes a request; the values of a form have passed both checks
Recibir(h, pet) ==
    /\ hilos[h].pc = "libre"
    /\ pet.ruta # "eliminar" => ~Faltan(pet.form) /\ validar(pet.form).es_valido
    /\ pet.ruta = "agregar" => sqlite_sequence + Cardinality(SinConfirmar) < MaxId
    /\ hilos' = [hilos EXCEPT ![h] =
                    [pc |-> IF pet.ruta = "editar" THEN "select" ELSE "execute",
                     ruta |-> pet.ruta, id |-> pet.id, form |-> pet.form,
                     rowid |-> 0, rowcount |-> 0]]
    /\ UNCHANGED <<examenes, sqlite_sequence, asignados, resp, proceso,
                   reservado, agregados>>

\* GET /editar/<id>: the form is loaded, or the record is not found
Select(h) ==
    /\ hilos[h].pc = "select"
    /\ IF SelectById(examenes, hilos[h].id) = None
       THEN /\ resp' = Respuesta("editar", "GET", hilos[h].id, SinForm, 404,
                                 "Examen no encontrado", <<>>)
            /\ hilos' = [hilos EXCEPT ![h] = Libre]
       ELSE /\ resp' = Respuesta("editar", "GET", hilos[h].id, SinForm, 200, "",
                                 <<SelectById(examenes, hilos[h].id)>>)
            /\ hilos' = [hilos EXCEPT ![h].pc = "execute"]
    /\ UNCHANGED <<examenes, sqlite_sequence, asignados, proceso, reservado,
                   agregados>>

\* a write lock that any connection gets at any time
BaseSinCerrojo == TRUE

\* no other connection holds the write lock
BaseLibre == reservado = 0

\* c.execute(INSERT / UPDATE / DELETE): the transaction begins and holds the
\* write lock; an INSERT has its rowid chosen, and the cursor counts the
\* rows the statement touches
Execute(h) ==
    /\ hilos[h].pc = "execute"
    /\ BaseLibre
    /\ reservado' = h
    /\ hilos' = [hilos EXCEPT ![h].pc = "commit",
                              ![h].rowid = IF hilos[h].ruta = "agregar"
                                           THEN NewRowid(examenes, sqlite_sequence)
                                           ELSE 0,
                              ![h].rowcount =
                                  IF hilos[h].ruta = "agregar"
                                         \/ hilos[h].id \in Ids(examenes)
                                  THEN 1 ELSE 0]
    /\ UNCHANGED <<examenes, sqlite_sequence, asignados, resp, proceso, agregados>>

\* c.execute raises sqlite3.OperationalError: database is locked
Ocupada(h) ==
    /\ hilos[h].pc = "execute"
    /\ reservado \notin {0, h}
    /\ resp' = Respuesta(hilos[h].ruta, metodo(hilos[h].ruta), hilos[h].id,
                         hilos[h].form, 500, "Error interno del servidor", <<>>)
    /\ hilos' = [hilos EXCEPT ![h] = Libre]
    /\ UNCHANGED <<examenes, sqlite_sequence, asignados, proceso, reservado,
                   agregados>>

\* conn.commit()
Commit(h) ==
    /\ hilos[h].pc = "commit"
    /\ examenes' =
         CASE hilos[h].ruta = "agregar" ->
                  Append(examenes,
                         Fila(hilos[h].rowid, hilos[h].form.fecha,
                              hilos[h].form.espacio_curricular, hilos[h].form.anio,
                              hilos[h].form.horario, hilos[h].form.docente))
           [] hilos[h].ruta = "editar" -> Update(examenes, hilos[h].id, hilos[h].form)
           [] OTHER -> Delete(examenes, hilos[h].id)
    /\ sqlite_sequence' =
         IF hilos[h].ruta = "agregar" /\ hilos[h].rowid > sqlite_sequence
         THEN hilos[h].rowid ELSE sqlite_sequence
    /\ asignados' =
         IF hilos[h].ruta = "agregar" THEN Append(asignados, hilos[h].rowid)
         ELSE asignados
    /\ reservado' = IF reservado = h THEN 0 ELSE reservado
    /\ hilos' = [hilos EXCEPT ![h].pc = "return"]
    /\ UNCHANGED <<resp, proceso, agregados>>

\* return redirect(url_for('index'))
Return(h) ==
    /\ hilos[h].pc = "return"
    /\ resp' = Respuesta(hilos[h].ruta, metodo(hilos[h].ruta), hilos[h].id,
                         hilos[h].form, 302, "", <<>>)
    /\ agregados' = IF hilos[h].ruta = "agregar" THEN agregados + 1 ELSE agregados
    /\ hilos' = [hilos EXCEPT ![h] = Libre]
    /\ UNCHANGED <<examenes, sqlite_sequence, asignados, proceso, reservado>>

NextHilos ==
    \/ \E h \in Hilos, pet \in PeticionesHilos : Recibir(h, pet)
    \/ \E h \in Hilos : Select(h)
    \/ \E h \in Hilos : Execute(h)
    \/ \E h \in Hilos : Ocupada(h)
    \/ \E h \in Hilos : Commit(h)
    \/ \E h \in Hilos : Return(h)

SpecHilos == Init /\ [][NextHilos]_vars

(***************************************************************************)
(* Notions the properties are stated with.                                 *)
(***************************************************************************)
Campos(fila) ==
    Form(fila.fecha, fila.espacio_curricular, fila.anio, fila.horario, fila.docente)

\* the day a stored fecha denotes, as a day number of the calendar
Dia(fecha) ==
    LET f == strptime(fecha) IN toordinal(f.year, f.month, f.day)

\* the string has the shape YYYY-MM-DD and names a day of the calendar
FechaISO(s) ==
    /\ Len(s) = 10
    /\ \A i \in {1, 2, 3, 4, 6, 7, 9, 10} : IsDigit(Ch(s, i))
    /\ Ch(s, 5) = "-" /\ Ch(s, 8) = "-"
    /\ LET y == Num(SubSeq(s, 1, 4))
           m == Num(SubSeq(s, 6, 7))
           d == Num(SubSeq(s, 9, 10))
       IN  y >= 1 /\ m \in 1..12 /\ d >= 1 /\ d <= days_in_month(y, m)

\* the position of an id in the order of insertion
Pos(id) == CHOOSE k \in 1..Len(asignados) : asignados[k] = id

\* the ids handed out before the last one
Antes(historia) == {historia[k] : k \in 1..(Len(historia) - 1)}

(***************************************************************************)
(* C1.  After any sequence of add, edit and delete requests from an empty  *)
(* table, every stored record has a fecha that parses as a day of the      *)
(* calendar, a subject of the catalog, one of the five year labels, and a  *)
(* time slot and a teacher that are not empty after trimming.              *)
(***************************************************************************)
C1_RegistrosValidos ==
    \A i \in 1..Len(examenes) :
        /\ strptime(examenes[i].fecha).ok
        /\ examenes[i].espacio_curricular \in ESPACIOS_CURRICULARES
        /\ examenes[i].anio \in anios_permitidos
        /\ strip(examenes[i].horario) # ""
        /\ strip(examenes[i].docente) # ""

\* an edit has just succeeded on a table that saw inserts and a delete
C1_Witness ==
    /\ resp.ruta = "editar" /\ resp.metodo = "POST" /\ resp.status = 302
    /\ resp.id \in Ids(examenes)
    /\ Len(examenes) >= 2
    /\ Len(asignados) > Len(examenes)

(***************************************************************************)
(* C2.  The validator checks date, subject, year, time slot, teacher in    *)
(* that order and the first failure wins: whenever a form breaks one or    *)
(* more rules, the reason returned is that of the earliest broken rule.    *)
(***************************************************************************)
Rota(form) ==
    <<~strptime(form.fecha).ok,
      form.espacio_curricular \notin ESPACIOS_CURRICULARES,
      form.anio \notin anios_permitidos,
      strip(form.horario) = "",
      strip(form.docente) = "">>

Motivos ==
    <<"Fecha invalida", "Espacio curricular no valido", "Ano no valido",
      "Horario no puede estar vacio", "Docente no puede estar vacio">>

C2_PrimeraFallaGana ==
    (resp.ruta = "validar_datos_examen" /\ \E k \in 1..5 : Rota(resp.form)[k])
        => LET k == CHOOSE k \in 1..5 :
                        /\ Rota(resp.form)[k]
                        /\ \A j \in 1..(k - 1) : ~Rota(resp.form)[j]
           IN  resp.cuerpo = FALSE /\ resp.mensaje = Motivos[k]

\* a form with a good date that breaks the subject, year and teacher rules
C2_Witness ==
    /\ resp.ruta = "validar_datos_examen"
    /\ Rota(resp.form) = <<FALSE, TRUE, TRUE, FALSE, TRUE>>
    /\ resp.mensaje = "Espacio curricular no valido"

(***************************************************************************)
(* C3.  The validator accepts a form exactly when its date has the shape   *)
(* YYYY-MM-DD and names a day of the calendar, its subject is in the       *)
(* catalog, its year is one of the five labels, and its time slot and      *)
(* teacher are not blank; an accepted form gets the empty reason.          *)
(***************************************************************************)
C3_AceptaSoloISO ==
    resp.ruta = "validar_datos_examen"
        => ((resp.cuerpo = TRUE /\ resp.mensaje = "")
              <=> /\ FechaISO(resp.form.fecha)
                  /\ resp.form.espacio_curricular \in ESPACIOS_CURRICULARES
                  /\ resp.form.anio \in anios_permitidos
                  /\ strip(resp.form.horario) # ""
                  /\ strip(resp.form.docente) # "")

(***************************************************************************)
(* C4.  The listing returns every stored record once, in ascending order   *)
(* of the date each record denotes, and records of the same date in their  *)
(* order of insertion.                                                     *)
(***************************************************************************)
ListadoCompleto ==
    /\ Len(resp.cuerpo) = Len(examenes)
    /\ \A i \in 1..Len(examenes) :
           \E j \in 1..Len(resp.cuerpo) : resp.cuerpo[j].id = examenes[i].id

C4_ListadoPorFecha ==
    resp.ruta = "index"
        => /\ ListadoCompleto
           /\ \A i, j \in 1..Len(resp.cuerpo) :
                  i < j =>
                      LET a == SelectById(examenes, resp.cuerpo[i].id)
                          b == SelectById(examenes, resp.cuerpo[j].id)
                      IN  \/ Dia(a.fecha) < Dia(b.fecha)
                          \/ Dia(a.fecha) = Dia(b.fecha) /\ Pos(a.id) < Pos(b.id)

\* What the query does guarantee: the listing is complete, ascends in the
\* byte order of the stored fecha strings, and keeps rows of equal strings in
\* their order of insertion.
ListadoPorCadena ==
    resp.ruta = "index"
        => /\ ListadoCompleto
           /\ \A i, j \in 1..Len(resp.cuerpo) :
                  i < j =>
                      LET a == SelectById(examenes, resp.cuerpo[i].id)
                          b == SelectById(examenes, resp.cuerpo[j].id)
                      IN  \/ Binary(a.fecha, b.fecha) < 0
                          \/ a.fecha = b.fecha /\ Pos(a.id) < Pos(b.id)

(***************************************************************************)
(* C5.  For every two stored records, the byte order of their fecha        *)
(* strings, which the listing query sorts by, is the calendar order of the *)
(* days they denote.                                                       *)
(***************************************************************************)
C5_OrdenLexicoEsCalendario ==
    \A i, j \in 1..Len(examenes) :
        (Binary(examenes[i].fecha, examenes[j].fecha) < 0)
            <=> (Dia(examenes[i].fecha) < Dia(examenes[j].fecha))

(***************************************************************************)
(* C6.  An edit POST with valid fields for an id that is not in the table  *)
(* is answered with the "not found" outcome (404), not with success.       *)
(***************************************************************************)
C6_EditarInexistenteNoEncontrado ==
    ( /\ resp.ruta = "editar" /\ resp.metodo = "POST"
      /\ ~Faltan(resp.form) /\ validar(resp.form).es_valido
      /\ resp.id \notin Ids(examenes) )
        => resp.status = 404

(***************************************************************************)
(* C7.  In the fallback export the record of 2025-09-12, Matematica,       *)
(* 1o ano, 09:00 - 11:00, DIAZ, PAMELA is written as the line              *)
(*   VIE 12/09/2025,Matematica,1o ano,09:00 - 11:00,DIAZ, PAMELA           *)
(* and every data line is the compact date and the four other fields as    *)
(* stored, joined by commas.                                               *)
(***************************************************************************)
RegistroC7 ==
    Form("2025-09-12", "Matematica", "1o ano", "09:00 - 11:00", "DIAZ, PAMELA")

ExportCsv ==
    resp.ruta = "exportar_pdf" /\ resp.status = 200 /\ resp.cuerpo.tipo = "csv"

\* the fields of the i-th record of the listing, the date in compact form
FilaExport(i) ==
    LET r == SelectIndex(examenes)[i]
    IN  <<formatear_fecha_compacta(r.fecha), r.espacio_curricular, r.anio,
          r.horario, r.docente>>

SinEspeciales(row) ==
    \A k \in 1..Len(row) : \A n \in 1..Len(row[k]) : Ch(row[k], n) \notin Especiales

C7_LineaSinComillas ==
    ExportCsv =>
        \A i \in 1..Len(examenes) :
            /\ Len(resp.cuerpo.data) > i
            /\ resp.cuerpo.data[i + 1] = Join(FilaExport(i))
            /\ Campos(SelectIndex(examenes)[i]) = RegistroC7
                   => resp.cuerpo.data[i + 1] =
                          "VIE 12/09/2025,Matematica,1o ano,09:00 - 11:00,DIAZ, PAMELA"

\* a field as the amended claim has it written
Escrito(campo) ==
    IF SinEspeciales(<<campo>>) THEN campo
    ELSE "\"" \o DoblarComillas(campo) \o "\""

\* C7 as amended: the teacher field, which holds a comma, is written between
\* double quotes.  Every data line is the compact date and the four other
\* fields joined by commas, a field that holds a comma, a double quote or a
\* line break written between double quotes with its double quotes doubled,
\* and any other field as stored.
C7_LineaConComillas ==
    ExportCsv =>
        \A i \in 1..Len(examenes) :
            /\ Len(resp.cuerpo.data) > i
            /\ resp.cuerpo.data[i + 1] =
                   Join([k \in 1..5 |-> Escrito(FilaExport(i)[k])])
            /\ SinEspeciales(FilaExport(i))
                   => resp.cuerpo.data[i + 1] = Join(FilaExport(i))
            /\ Campos(SelectIndex(examenes)[i]) = RegistroC7
                   => resp.cuerpo.data[i + 1] =
                          "VIE 12/09/2025,Matematica,1o ano,09:00 - 11:00,\"DIAZ, PAMELA\""

\* the fallback export of a table whose only record is that of C7: its line
\* is the second line of the file
C7_Witness ==
    /\ ExportCsv
    /\ Len(examenes) = 1
    /\ Campos(examenes[1]) = RegistroC7
    /\ Len(resp.cuerpo.data) = 2

(***************************************************************************)
(* C8.  Both export paths emit the header and then one row per stored      *)
(* record, with the columns date, subject, year, time slot, teacher, in    *)
(* the order in which the listing query returns the records.               *)
(***************************************************************************)
C8_ExportComoListado ==
    (resp.ruta = "exportar_pdf" /\ resp.status = 200)
        => /\ REPORTLAB_AVAILABLE <=> resp.cuerpo.tipo = "pdf"
           /\ Len(resp.cuerpo.data) = Len(examenes) + 1
           /\ \A i \in 1..Len(examenes) :
                  resp.cuerpo.data[i + 1] =
                      IF resp.cuerpo.tipo = "pdf" THEN FilaExport(i)
                      ELSE writerow(FilaExport(i))
           /\ resp.cuerpo.data[1] =
                  IF resp.cuerpo.tipo = "pdf" THEN Encabezado ELSE writerow(Encabezado)

\* an export of three records that the listing does not return in id order
C8_Witness ==
    /\ resp.ruta = "exportar_pdf" /\ resp.status = 200
    /\ resp.cuerpo.tipo = "pdf"
    /\ Len(examenes) = 3
    /\ SelectIndex(examenes)[1].id = 3
    /\ SelectIndex(examenes)[3].id = 1

(***************************************************************************)
(* C9.  Every id is given to at most one record over the whole history:    *)
(* no two live records share an id, and an id freed by a delete is never   *)
(* handed out again.                                                       *)
(***************************************************************************)
C9_IdsNuncaReusados ==
    /\ \A k, l \in 1..Len(asignados) : asignados[k] = asignados[l] => k = l
    /\ \A i, j \in 1..Len(examenes) : examenes[i].id = examenes[j].id => i = j
    /\ \A i \in 1..Len(examenes) :
           \E k \in 1..Len(asignados) : asignados[k] = examenes[i].id

\* an insert right after the record with the largest id was deleted
C9_Witness ==
    /\ resp.ruta = "agregar" /\ resp.metodo = "POST" /\ resp.status = 302
    /\ Len(asignados) >= 2
    /\ asignados[Len(asignados) - 1] \notin Ids(examenes)
    /\ asignados[Len(asignados)] \in Ids(examenes)

(***************************************************************************)
(* C10.  Round trip through the store: after a valid insert the listing    *)
(* query returns a record with the five fields of the input and an id not  *)
(* handed out before; after a valid edit of an existing id, reading that   *)
(* id returns the new values; after a delete, reading the id finds no row. *)
(***************************************************************************)
C10_IdaYVuelta ==
    /\ (resp.ruta = "agregar" /\ resp.metodo = "POST" /\ resp.status = 302)
           => /\ Len(asignados) >= 1
              /\ asignados[Len(asignados)] \notin Antes(asignados)
              /\ \E i \in 1..Len(examenes) :
                     /\ SelectIndex(examenes)[i].id = asignados[Len(asignados)]
                     /\ Campos(SelectIndex(examenes)[i]) = resp.form
    /\ (resp.ruta = "editar" /\ resp.metodo = "POST" /\ resp.status = 302
            /\ resp.id \in Ids(examenes))
           => /\ SelectById(examenes, resp.id).id = resp.id
              /\ Campos(SelectById(examenes, resp.id)) = resp.form
    /\ resp.ruta = "eliminar" => SelectById(examenes, resp.id) = None

\* an edit that gave a record a time slot and a teacher that differ
C10_Witness ==
    /\ resp.ruta = "editar" /\ resp.metodo = "POST" /\ resp.status = 302
    /\ resp.id \in Ids(examenes)
    /\ Len(examenes) >= 2
    /\ Len(asignados) > Len(examenes)
    /\ resp.form.horario # resp.form.docente

(***************************************************************************)
(* C11.  Delete is idempotent: a delete of an id that is not in the table  *)
(* (never handed out, or deleted before) is answered with the redirect of  *)
(* a successful delete and leaves the table, the id sequence and the       *)
(* history exactly as they were.                                           *)
(***************************************************************************)
C11_EliminarIdempotente ==
    [][(resp'.ruta = "eliminar" /\ resp'.id \notin Ids(examenes))
          => /\ resp'.status = 302
             /\ resp'.mensaje = ""
             /\ examenes' = examenes
             /\ sqlite_sequence' = sqlite_sequence
             /\ asignados' = asignados]_vars

\* a second delete of the same id has been served while other records stay
C11_Witness ==
    /\ resp.ruta = "eliminar" /\ resp.status = 302
    /\ \E i \in 1..Len(asignados) : asignados[i] = resp.id
    /\ resp.id \notin Ids(examenes)
    /\ \E i \in 1..Len(examenes) : examenes[i].id < resp.id
    /\ \E i \in 1..Len(examenes) : examenes[i].id > resp.id

(***************************************************************************)
(* C12.  For every day of the calendar written as YYYY-MM-DD the long form *)
(* is the Spanish upper-case name of its true weekday, a blank and the     *)
(* date as DD/MM/YYYY, and the compact form is the same with the           *)
(* three-letter weekday; 2025-09-12 gives VIERNES and VIE.                 *)
(***************************************************************************)
\* the day of the week by Sakamoto's rule, brought to Monday = 0
DiaVerdadero(y, m, d) ==
    LET t == <<0, 3, 2, 5, 0, 3, 5, 1, 4, 6, 2, 4>>
        a == IF m < 3 THEN y - 1 ELSE y
    IN  ((a + (a \div 4) - (a \div 100) + (a \div 400) + t[m] + d) + 6) % 7

NombresLargos ==
    <<"LUNES", "MARTES", "MIERCOLES", "JUEVES", "VIERNES", "SABADO", "DOMINGO">>

NombresCortos == <<"LUN", "MAR", "MIE", "JUE", "VIE", "SAB", "DOM">>

\* DD/MM/YYYY read off the characters of a string YYYY-MM-DD
DDMMYYYY(s) == SubSeq(s, 9, 10) \o "/" \o SubSeq(s, 6, 7) \o "/" \o SubSeq(s, 1, 4)

FormatoDe(s) ==
    LET dia == DiaVerdadero(Num(SubSeq(s, 1, 4)), Num(SubSeq(s, 6, 7)),
                            Num(SubSeq(s, 9, 10))) + 1
    IN  <<NombresLargos[dia] \o " " \o DDMMYYYY(s),
          NombresCortos[dia] \o " " \o DDMMYYYY(s)>>

C12_FormatoDiaFecha ==
    (resp.ruta = "formatear_fecha" /\ FechaISO(resp.form.fecha))
        => /\ resp.cuerpo = FormatoDe(resp.form.fecha)
           /\ resp.form.fecha = "2025-09-12"
                  => resp.cuerpo = <<"VIERNES 12/09/2025", "VIE 12/09/2025">>

\* What the formatters do guarantee: the claimed forms for every day from
\* the year 1000 on, and for every day where strftime pads the year.
FormatoDesdeElAnio1000 ==
    (/\ resp.ruta = "formatear_fecha" /\ FechaISO(resp.form.fecha)
     /\ (strftime_rellena \/ Num(SubSeq(resp.form.fecha, 1, 4)) >= 1000))
        => resp.cuerpo = FormatoDe(resp.form.fecha)

(***************************************************************************)
(* C13.  The formatters fail soft: a string that is not a day of the       *)
(* calendar written as YYYY-MM-DD (a string of that shape naming no real   *)
(* day included) comes back unchanged from both formatters.                *)
(***************************************************************************)
C13_FormatoDevuelveEntrada ==
    (resp.ruta = "formatear_fecha" /\ ~FechaISO(resp.form.fecha))
        => resp.cuerpo = <<resp.form.fecha, resp.form.fecha>>

\* What the formatters do guarantee: a string that strptime does not parse
\* comes back unchanged, and a string that it parses is rendered anew.
FormatoDevuelveLoNoLeido ==
    resp.ruta = "formatear_fecha"
        => IF strptime(resp.form.fecha).ok
           THEN resp.cuerpo[1] # resp.form.fecha /\ resp.cuerpo[2] # resp.form.fecha
           ELSE resp.cuerpo = <<resp.form.fecha, resp.form.fecha>>

(***************************************************************************)
(* C14.  An exception raised at any step of rendering the export, on the   *)
(* PDF path or the CSV path, ends the request with the export-error        *)
(* response; every response of the export route is either that error page  *)
(* with no file, or the download of the complete document: the header and  *)
(* one row for each record of the table.                                   *)
(***************************************************************************)
ErrorDeExportacion ==
    /\ resp.status = 500
    /\ resp.mensaje \in {"Error al generar PDF", "Error al generar CSV"}
    /\ resp.cuerpo = <<>>

DescargaCompleta ==
    /\ resp.status = 200
    /\ Len(resp.cuerpo.data) = Len(examenes) + 1
    /\ resp.cuerpo.total = Len(examenes)
    /\ resp.cuerpo.data = (IF REPORTLAB_AVAILABLE
                           THEN Pdf(examenes_formateados(SelectExport(examenes)))
                           ELSE Csv(examenes_formateados(SelectExport(examenes)))).data

C14_ExportacionCompletaOError ==
    /\ [](resp.ruta = "exportar_pdf" => (ErrorDeExportacion \/ DescargaCompleta))
    /\ [][\A falla \in PuntosDeFalla :
              (falla # 0 /\ exportar_pdf(falla)) => ErrorDeExportacion']_vars

\* the CSV export of a table of two or more records has failed
C14_Witness ==
    /\ resp.ruta = "exportar_pdf" /\ ErrorDeExportacion
    /\ ~REPORTLAB_AVAILABLE
    /\ Len(examenes) >= 2

(***************************************************************************)
(* C15.  An add or edit whose field values fail validation is answered     *)
(* with a message for the user that names the reason of a failing field,   *)
(* and nothing of the submitted values is stored.                          *)
(***************************************************************************)
EnvioDeFormulario == resp.ruta \in {"agregar", "editar"} /\ resp.metodo = "POST"

\* as claimed: whatever the failure, an empty field included, the message
\* carries the reason of a field that fails
C15_MotivoDelCampo ==
    (EnvioDeFormulario /\ \E k \in 1..5 : Rota(resp.form)[k])
        => /\ resp.status = 400
           /\ \E k \in 1..5 :
                  /\ Rota(resp.form)[k]
                  /\ resp.mensaje = "Datos invalidos: " \o Motivos[k]

\* as amended: an empty field gets the one message for missing data; any
\* other failure gets the reason of the first rule broken; the table, the
\* id sequence and the history stay as they were
MensajeDeRechazo ==
    [form \in FormsApp |->
        IF \A k \in 1..5 : ~Rota(form)[k] THEN ""
        ELSE IF Faltan(form)
        THEN "Faltan datos. Por favor complete todos los campos."
        ELSE "Datos invalidos: " \o
                 Motivos[CHOOSE k \in 1..5 :
                             /\ Rota(form)[k]
                             /\ \A j \in 1..(k - 1) : ~Rota(form)[j]]]

C15_MotivoOFaltanDatos ==
    [][(/\ resp'.ruta \in {"agregar", "editar"} /\ resp'.metodo = "POST"
        /\ MensajeDeRechazo[resp'.form] # "")
          => /\ resp'.status = 400
             /\ resp'.mensaje = MensajeDeRechazo[resp'.form]
             /\ examenes' = examenes
             /\ sqlite_sequence' = sqlite_sequence
             /\ asignados' = asignados]_vars

\* an add with a teacher of blanks only has been refused with its reason
\* while the table holds records
C15_Witness ==
    /\ resp.ruta = "agregar" /\ resp.metodo = "POST" /\ resp.status = 400
    /\ resp.form.docente = " " /\ strptime(resp.form.fecha).ok
    /\ resp.mensaje = "Datos invalidos: Docente no puede estar vacio"
    /\ Len(examenes) >= 1

(***************************************************************************)
(* C17.  The renderer is fixed when the process starts: the capability     *)
(* flag never changes afterwards, and every export that returns a file     *)
(* uses the renderer the flag selects, whatever is stored or was           *)
(* requested: with the flag set, a PDF under the name                      *)
(* cronograma_examenes.pdf; without it, a CSV file under the name          *)
(* cronograma_examenes.csv with the MIME type text/csv.  A failed export   *)
(* names the same renderer in its message.                                 *)
(***************************************************************************)
C17_RenderizadorFijo ==
    /\ [][REPORTLAB_AVAILABLE' = REPORTLAB_AVAILABLE]_vars
    /\ []((resp.ruta = "exportar_pdf" /\ resp.status = 200)
             => IF REPORTLAB_AVAILABLE
                THEN /\ resp.cuerpo.tipo = "pdf"
                     /\ resp.cuerpo.download_name = "cronograma_examenes.pdf"
                ELSE /\ resp.cuerpo.tipo = "csv"
                     /\ resp.cuerpo.download_name = "cronograma_examenes.csv"
                     /\ resp.cuerpo.mimetype = "text/csv")
    /\ []((resp.ruta = "exportar_pdf" /\ resp.status = 500)
             => resp.mensaje = IF REPORTLAB_AVAILABLE THEN "Error al generar PDF"
                               ELSE "Error al generar CSV")

\* with the capability present, an empty table has been exported after
\* records were added and deleted again
C17_Witness ==
    /\ resp.ruta = "exportar_pdf" /\ resp.status = 200
    /\ REPORTLAB_AVAILABLE
    /\ examenes = <<>> /\ Len(asignados) >= 2

(***************************************************************************)
(* C18.  A successful edit of id k replaces only the five other fields of  *)
(* that record: the table keeps its length and its ids in their places,    *)
(* the record of id k holds the submitted values, every other record is    *)
(* exactly as it was, and the id sequence and the history are untouched.   *)
(***************************************************************************)
C18_EditarSoloElRegistro ==
    [][(resp'.ruta = "editar" /\ resp'.metodo = "POST" /\ resp'.status = 302)
          => /\ Len(examenes') = Len(examenes)
             /\ \A i \in 1..Len(examenes) :
                    /\ examenes'[i].id = examenes[i].id
                    /\ IF examenes[i].id = resp'.id
                       THEN Campos(examenes'[i]) = resp'.form
                       ELSE examenes'[i] = examenes[i]
             /\ sqlite_sequence' = sqlite_sequence
             /\ asignados' = asignados]_vars

\* the middle one of three records has been edited to values that neither
\* of the two others holds
C18_Witness ==
    /\ resp.ruta = "editar" /\ resp.metodo = "POST" /\ resp.status = 302
    /\ Len(examenes) = 3
    /\ examenes[2].id = resp.id /\ Campos(examenes[2]) = resp.form
    /\ Campos(examenes[1]) # resp.form /\ Campos(examenes[3]) # resp.form

(***************************************************************************)
(* C19.  An add or edit POST that is rejected, for a missing or empty      *)
(* field or for values that fail validation, is answered with status 400   *)
(* and leaves the store as it was; and only such a request is answered     *)
(* with 400.                                                               *)
(***************************************************************************)
Rechazable ==
    [form \in FormsApp |-> Faltan(form) \/ \E k \in 1..5 : Rota(form)[k]]

C19_RechazoSinEfecto ==
    [][(resp'.ruta \in {"agregar", "editar"} /\ resp'.metodo = "POST")
          => IF Rechazable[resp'.form]
             THEN /\ resp'.status = 400
                  /\ examenes' = examenes
                  /\ sqlite_sequence' = sqlite_sequence
                  /\ asignados' = asignados
             ELSE resp'.status = 302]_vars

\* an edit of a stored record with a date that does not exist has been
\* refused
C19_Witness ==
    /\ resp.ruta = "editar" /\ resp.metodo = "POST" /\ resp.status = 400
    /\ resp.id \in Ids(examenes)
    /\ resp.form.fecha = "2025-02-30"
    /\ Campos(SelectById(examenes, resp.id)).fecha # "2025-02-30"

(***************************************************************************)
(* C16.  Concurrent adds lose no write and do not corrupt the id sequence: *)
(* in every state of the threaded server, every add that was answered      *)
(* with the redirect or is about to be has its own committed insert, the   *)
(* ids handed out are pairwise distinct, no two rows share an id, every    *)
(* inserted row that no client deletes or edits is in the table with the   *)
(* values of the add, and the id sequence stands at the largest id handed  *)
(* out.  So once N adds have completed, N records with N distinct ids have *)
(* been added.                                                             *)
(***************************************************************************)
PorResponder ==
    {h \in Hilos : hilos[h].ruta = "agregar" /\ hilos[h].pc = "return"}

C16_AltasConcurrentes ==
    /\ Len(asignados) = agregados + Cardinality(PorResponder)
    /\ \A i, j \in 1..Len(asignados) : i # j => asignados[i] # asignados[j]
    /\ \A i, j \in 1..Len(examenes) : i # j => examenes[i].id # examenes[j].id
    /\ \A i \in 1..Len(asignados) :
           asignados[i] \notin IdsHilos
               => Campos(SelectById(examenes, asignados[i])) = FormAgregar
    /\ \A i \in 1..Len(asignados) : asignados[i] <= sqlite_sequence
    /\ Ids(examenes) \subseteq {asignados[i] : i \in 1..Len(asignados)}

\* two adds in flight together after an earlier one: one is committed and
\* not yet answered, the other holds the write lock with its rowid chosen
C16_Witness ==
    /\ agregados >= 1
    /\ \E h, g \in Hilos :
           /\ hilos[h].ruta = "agregar" /\ hilos[h].pc = "return"
           /\ hilos[g].ruta = "agregar" /\ hilos[g].pc = "commit"
           /\ reservado = g
           /\ hilos[g].rowid = hilos[h].rowid + 1

(***************************************************************************)
(* C20.  However the form load and the form submit of an edit of id k are  *)
(* interleaved with a delete of id k, a submit that takes effect after the *)
(* delete does not bring the record back: an id that was handed out and is *)
(* no longer in the table is in the table in no later state.               *)
(***************************************************************************)
C20_EliminadoNoVuelve ==
    [][\A k \in 1..MaxId :
          ((\E i \in 1..Len(asignados) : asignados[i] = k) /\ k \notin Ids(examenes))
              => k \notin Ids(examenes')]_vars

\* an edit whose form was loaded while the record was there has committed
\* its UPDATE after the delete: the statement touched no row
C20_Witness ==
    \E h \in Hilos :
        /\ hilos[h].ruta = "editar" /\ hilos[h].pc = "return"
        /\ hilos[h].rowcount = 0
        /\ \E i \in 1..Len(asignados) : asignados[i] = hilos[h].id
        /\ hilos[h].id \notin Ids(examenes)

====
